---- MODULE Spec2Model ----
(***************************************************************************)
(* Disk health monitor: the health scorer and the attribute classifier of  *)
(* src/src/monitor.py, the history store and trend analyser of             *)
(* src/src/history.py and the polling loop of src/src/ui.py.               *)
(*                                                                         *)
(* The specifications share the variables:                                 *)
(*   SpecPure    - the pure functions applied to bounded inputs            *)
(*   SpecHistory - DiskHistory's operations on the disk_stats table        *)
(*   SpecSchema  - _init_db run again and again on a store                 *)
(*   SpecTrend   - analyze_trend on samples with read and write errors     *)
(*   Spec        - the polling thread, the presentation thread and exit    *)
(*   SpecLive    - Spec with the scheduling of the polling thread          *)
(***************************************************************************)
EXTENDS Integers, Sequences, FiniteSets, TLC

VARIABLES
    call,           \* the last call made to a pure function or to DiskHistory, with its result
    db,             \* the disk_stats table: its rows in insertion (rowid) order
    now,            \* the wall clock read by datetime.datetime.now()
    running,        \* DiskMonitorApp.running
    disks_data,     \* DiskMonitorApp.disks_data, the shared result map
    pc,             \* position of the polling thread in _monitor_loop
    devices,        \* _monitor_loop's local: the list scan_disks returned
    idx,            \* _monitor_loop's local: the for loop's position in devices
    new_data,       \* _monitor_loop's local: the map under construction
    overall_status, \* _monitor_loop's local: the tray colour
    icon,           \* the colour last given to the tray icon
    current_data,   \* _refresh_dashboard's local copy of disks_data, None outside the call
    cycle           \* ghost: what went wrong in the polling cycle in progress

vars == <<call, db, now, running, disks_data, pc, devices, idx, new_data,
          overall_status, icon, current_data, cycle>>

histVars == <<db, now>>
loopVars == <<running, disks_data, pc, devices, idx, new_data, overall_status,
              icon, current_data, cycle>>

----------------------------------------------------------------------------
(* Bounds of the model *)

\* longest ATA attribute table of a snapshot given to the scorer
MaxTable == 2
\* most rows the disk_stats table holds
MaxRows == 3
\* most polling cycles the polling thread starts
MaxCycles == 1
\* most times the application is started (_init_db run) on one store
MaxInitRuns == 2

----------------------------------------------------------------------------
(* Python values *)

\* None, and a present value v, as a sequence of length 0 or 1
None == <<>>
Some(v) == <<v>>

\* the empty dict
EmptyDict == [k \in {} |-> 0]

\* dict.get(key, default)
Get(d, key, default) == IF key \in DOMAIN d THEN d[key] ELSE default

\* truthiness of an optional number: None and 0 are falsy
Truthy(x) == x # None /\ x[1] # 0

Max(a, b) == IF a >= b THEN a ELSE b
Min(a, b) == IF a <= b THEN a ELSE b

\* needle in haystack, on strings
Contains(haystack, needle) ==
    \E k \in 1..(Len(haystack) - Len(needle) + 1) :
        SubSeq(haystack, k, k + Len(needle) - 1) = needle

\* all sequences over S of length at most n
SeqsUpTo(S, n) == UNION {[1..k -> S] : k \in 0..n}

----------------------------------------------------------------------------
(* monitor.py: _calculate_health_score *)

\* A snapshot is a dict. The nested keys the scorer reads are flattened:
\*   passed          = data["smart_status"]["passed"]
\*   percentage_used = data["nvme_smart_health_information_log"]["percentage_used"]
\*   table           = data["ata_smart_attributes"]["table"], rows [id, raw]
\* Each key may be absent.

\* the penalty with the cap applied as a wrap-around instead of a minimum
RowPenaltyWrapped(attr) ==
    IF attr.id = 5 /\ attr.raw > 0 THEN 10 + (attr.raw % 40)
    ELSE IF attr.id = 197 /\ attr.raw > 0 THEN 5 + (attr.raw % 20)
    ELSE IF attr.id = 198 /\ attr.raw > 0 THEN 5 + (attr.raw % 20)
    ELSE IF attr.id = 187 /\ attr.raw > 0 THEN attr.raw % 50
    ELSE 0

\* the penalty one attribute row takes off the score (the if/elif chain)
RowPenalty(attr) ==
    IF attr.id = 5 /\ attr.raw > 0 THEN 10 + Min(attr.raw, 40)
    ELSE IF attr.id = 197 /\ attr.raw > 0 THEN 5 + Min(attr.raw, 20)
    ELSE IF attr.id = 198 /\ attr.raw > 0 THEN 5 + Min(attr.raw, 20)
    ELSE IF attr.id = 187 /\ attr.raw > 0 THEN Min(attr.raw, 50)
    ELSE 0

\* the for loop leaving at the first row it penalises
RECURSIVE ScoreLoopEarlyExit(_, _, _)
ScoreLoopEarlyExit(table, k, score) ==
    IF k > Len(table) THEN score
    ELSE IF RowPenalty(table[k]) > 0 THEN score - RowPenalty(table[k])
    ELSE ScoreLoopEarlyExit(table, k + 1, score)

\* the for loop over the table, from row k on, with the score so far
RECURSIVE ScoreLoop(_, _, _)
ScoreLoop(table, k, score) ==
    IF k > Len(table) THEN score
    ELSE ScoreLoop(table, k + 1, score - RowPenalty(table[k]))

\* the scorer looking at the NVMe log before the SMART status
_calculate_health_score_nvme_first(data) ==
    IF "percentage_used" \in DOMAIN data
    THEN Max(0, 100 - data.percentage_used)
    ELSE IF ~Get(data, "passed", TRUE) THEN 0
         ELSE Max(0, ScoreLoop(Get(data, "table", <<>>), 1, 100))

\* the scorer taking the ATA penalties off the NVMe score as well
_calculate_health_score_nvme_with_ata(data) ==
    IF ~Get(data, "passed", TRUE) THEN 0
    ELSE Max(0, ScoreLoop(Get(data, "table", <<>>), 1,
                          IF "percentage_used" \in DOMAIN data
                          THEN 100 - data.percentage_used ELSE 100))

_calculate_health_score(data) ==
    IF ~Get(data, "passed", TRUE) THEN 0
    ELSE IF "percentage_used" \in DOMAIN data
         THEN Max(0, 100 - data.percentage_used)
         ELSE Max(0, ScoreLoop(Get(data, "table", <<>>), 1, 100))

----------------------------------------------------------------------------
(* monitor.py: analyze_smart_attribute *)

\* f"{raw} bad sectors" and the like
Fmt(n, suffix) == ToString(n) \o suffix

\* step 1 of analyze_smart_attribute: the threshold test. normalized and
\* threshold are None or Some(number); "threshold and normalized" tests
\* truthiness, so a 0 is taken like None.
ThresholdFailed(normalized, threshold) ==
    /\ Truthy(threshold) /\ Truthy(normalized)
    /\ threshold[1] > 0 /\ normalized[1] <= threshold[1]

\* the classifier taking a reallocated count of 10 for critical already
analyze_smart_attribute_from_ten(id_, raw, normalized, threshold, rotation_rate) ==
    IF ThresholdFailed(normalized, threshold) THEN <<"CRIT", "Failed Threshold">>
    ELSE IF id_ = 5 /\ raw >= 10 THEN <<"CRIT", Fmt(raw, " bad sectors")>>
    ELSE IF id_ = 5 /\ raw > 0 THEN <<"WARN", Fmt(raw, " bad sectors")>>
    ELSE IF id_ = 197 /\ raw > 0 THEN <<"WARN", Fmt(raw, " unstable sectors")>>
    ELSE IF id_ = 198 /\ raw > 0 THEN <<"CRIT", Fmt(raw, " uncorrectable")>>
    ELSE IF id_ = 187 /\ raw > 0 THEN <<"CRIT", Fmt(raw, " uncorrectable")>>
    ELSE IF id_ = 199 /\ raw > 0 THEN <<"WARN", "Check Cable">>
    ELSE IF /\ id_ \in {169, 173, 230, 231, 232, 233}
            /\ rotation_rate = 0
            /\ Truthy(normalized) /\ normalized[1] < 10
         THEN <<"CRIT", "Wearing Out">>
    ELSE <<"OK", "Good">>

analyze_smart_attribute(id_, raw, normalized, threshold, rotation_rate) ==
    IF ThresholdFailed(normalized, threshold) THEN <<"CRIT", "Failed Threshold">>
    ELSE IF id_ = 5 /\ raw > 10 THEN <<"CRIT", Fmt(raw, " bad sectors")>>
    ELSE IF id_ = 5 /\ raw > 0 THEN <<"WARN", Fmt(raw, " bad sectors")>>
    ELSE IF id_ = 197 /\ raw > 0 THEN <<"WARN", Fmt(raw, " unstable sectors")>>
    ELSE IF id_ = 198 /\ raw > 0 THEN <<"CRIT", Fmt(raw, " uncorrectable")>>
    ELSE IF id_ = 187 /\ raw > 0 THEN <<"CRIT", Fmt(raw, " uncorrectable")>>
    ELSE IF id_ = 199 /\ raw > 0 THEN <<"WARN", "Check Cable">>
    ELSE IF /\ id_ \in {169, 173, 230, 231, 232, 233}
            /\ rotation_rate = 0
            /\ Truthy(normalized) /\ normalized[1] < 10
         THEN <<"CRIT", "Wearing Out">>
    ELSE <<"OK", "Good">>

----------------------------------------------------------------------------
(* Inputs of the pure functions *)

\* attribute IDs: the four the scorer penalises, the cable and wear IDs the
\* classifier knows, and two it does not (1, 9)
AttrIds == {1, 5, 9, 187, 197, 198, 199, 169, 173, 230, 231, 232, 233}
ScoreIds == {5, 9, 187, 197, 198}
\* raw counts around the caps 20, 40 and 50 of the penalties
ScoreRaws == {0, 1, 25, 60}
ClassifyRaws == {0, 3, 10, 11}
\* percentage_used, in range and malformed on both sides
NvmeUsed == {-5, 0, 30, 100, 150}
NormValues == {None, Some(0), Some(5), Some(10), Some(50), Some(100)}
ThreshValues == {None, Some(0), Some(10)}
RotationRates == {0, 7200}

AttrRows == [id : ScoreIds, raw : ScoreRaws]

\* the snapshot with the given optional passed flag, optional percentage_used
\* and table
MkSnapshot(p, u, t) ==
    (IF p = None THEN EmptyDict ELSE [passed |-> p[1]])
    @@ (IF u = None THEN EmptyDict ELSE [percentage_used |-> u[1]])
    @@ [table |-> t]

Snapshots ==
    {MkSnapshot(p, u, t) :
        p \in {None, Some(TRUE), Some(FALSE)},
        u \in {None} \cup {Some(x) : x \in NvmeUsed},
        t \in SeqsUpTo(AttrRows, MaxTable)}

----------------------------------------------------------------------------
(* history.py: the disk_stats table *)

Serials == {"A", "B"}

\* reallocated-sector counts of the samples a store holds at a start
StoredRscValues == {0, 1}

\* reallocated-sector counts of the samples: enough for the growth since the
\* first sample and the change since the previous one to differ
RscValues == {0, 1, 2}

\* the rowids of every sample, the WHERE clause left out
RowIdsAnySerial(table, serial) == 1..Len(table)

\* rowids of the samples of a serial
RowIds(table, serial) ==
    {k \in 1..Len(table) : table[k].serial_number = serial}

\* the orders in which ORDER BY timestamp may return the rows ids, ascending
\* (dir = 1) or descending (dir = -1): the next row is any row whose timestamp
\* no other remaining row precedes (SQL leaves the order of equal timestamps
\* open)
RECURSIVE Orders(_, _, _)
Orders(table, ids, dir) ==
    IF ids = {} THEN {<<>>}
    ELSE LET first == {k \in ids : \A j \in ids :
                          dir * table[k].timestamp <= dir * table[j].timestamp}
         IN  UNION {{<<k>> \o rest : rest \in Orders(table, ids \ {k}, dir)} :
                       k \in first}

\* WHERE serial_number = ? ORDER BY timestamp ASC
AscOrders(table, serial) == Orders(table, RowIds(table, serial), 1)

\* WHERE serial_number = ? ORDER BY timestamp DESC
DescOrders(table, serial) == Orders(table, RowIds(table, serial), -1)

\* LIMIT n applied to an order
Limit(order, n) == SubSeq(order, 1, Min(n, Len(order)))

\* the row log_status inserts
NewRow(serial, rsc, read_err, hours, pending, io_load, write_err, ts) ==
    [serial_number |-> serial, timestamp |-> ts,
     reallocated_sectors |-> rsc, read_errors |-> read_err,
     power_on_hours |-> hours, pending_sectors |-> pending,
     io_load |-> io_load, write_errors |-> write_err]

\* an insert that replaces the serial's latest row instead of adding one
log_status_replace(table, serial, rsc, read_err, hours, pending, io_load, write_err, ts) ==
    LET row == NewRow(serial, rsc, read_err, hours, pending, io_load, write_err, ts)
        ids == RowIds(table, serial)
    IN  IF ids = {} THEN Append(table, row)
        ELSE [table EXCEPT ![CHOOSE k \in ids : \A j \in ids : j <= k] = row]

\* the table after log_status: INSERT appends one row stamped with the clock
log_status(table, serial, rsc, read_err, hours, pending, io_load, write_err, ts) ==
    Append(table, NewRow(serial, rsc, read_err, hours, pending, io_load, write_err, ts))

\* get_io_history returning the latest limit samples instead of the oldest
get_io_history_latest(table, order, limit) ==
    LET n == Min(limit, Len(order))
        skip == Len(order) - n
    IN  [k \in 1..n |->
            <<table[order[skip + k]].timestamp, table[order[skip + k]].io_load>>]

\* get_io_history's rows for one order of the serial's samples
get_io_history(table, order, limit) ==
    [k \in 1..Len(Limit(order, limit)) |->
        <<table[order[k]].timestamp, table[order[k]].io_load>>]

\* get_latest_stats' row (fetchone) for one descending order: None or the tuple
get_latest_stats(table, order) ==
    IF order = <<>> THEN None
    ELSE LET r == table[order[1]]
         IN  Some(<<r.reallocated_sectors, r.read_errors, r.power_on_hours,
                    r.pending_sectors, r.timestamp>>)

----------------------------------------------------------------------------
(* history.py: analyze_trend *)

\* "x or 0" on a nullable integer column
OrZero(x) == IF Truthy(x) THEN x[1] ELSE 0

\* the since-first-scan step with the growth test taken as >= 0
SinceFirstScanNonStrict(res, current, oldest) ==
    IF oldest # None /\ current.reallocated_sectors - oldest[1].reallocated_sectors >= 0
    THEN LET rsc_growth == current.reallocated_sectors - oldest[1].reallocated_sectors
         IN  [res EXCEPT
                !.status = "WARNING",
                !.messages = Append(@, "Reallocated Sectors increased by "
                                       \o ToString(rsc_growth) \o " since first scan."),
                !.rsc_trend = rsc_growth]
    ELSE res

\* the since-first-scan step leaving rsc_trend alone
SinceFirstScanNoTrend(res, current, oldest) ==
    IF oldest # None /\ current.reallocated_sectors - oldest[1].reallocated_sectors > 0
    THEN LET rsc_growth == current.reallocated_sectors - oldest[1].reallocated_sectors
         IN  [res EXCEPT
                !.status = "WARNING",
                !.messages = Append(@, "Reallocated Sectors increased by "
                                       \o ToString(rsc_growth) \o " since first scan.")]
    ELSE res

\* step "Check against oldest known state"
SinceFirstScan(res, current, oldest) ==
    IF oldest # None /\ current.reallocated_sectors - oldest[1].reallocated_sectors > 0
    THEN LET rsc_growth == current.reallocated_sectors - oldest[1].reallocated_sectors
         IN  [res EXCEPT
                !.status = "WARNING",
                !.messages = Append(@, "Reallocated Sectors increased by "
                                       \o ToString(rsc_growth) \o " since first scan."),
                !.rsc_trend = rsc_growth]
    ELSE res

\* the rsc_diff block, with a count of 1 taken for no change
RscEscalationAboveOne(res, rsc_diff) ==
    IF rsc_diff > 1
    THEN [res EXCEPT
            !.status = "CRITICAL",
            !.messages = Append(@, "New Reallocated Sectors detected! (+"
                                   \o ToString(rsc_diff) \o ")")]
    ELSE res

\* "if rsc_diff > 0": the status becomes CRITICAL
RscEscalation(res, rsc_diff) ==
    IF rsc_diff > 0
    THEN [res EXCEPT
            !.status = "CRITICAL",
            !.messages = Append(@, "New Reallocated Sectors detected! (+"
                                   \o ToString(rsc_diff) \o ")")]
    ELSE res

\* "if read_diff > 0"
ReadErrMessage(res, read_diff) ==
    IF read_diff > 0
    THEN [res EXCEPT
            !.messages = Append(@, "New Read Errors detected! (+"
                                   \o ToString(read_diff) \o ")")]
    ELSE res

\* the write-error block raising an OK status to WARNING
WriteErrMessageEscalates(res, write_diff) ==
    IF write_diff > 0
    THEN [res EXCEPT
            !.status = IF @ = "OK" THEN "WARNING" ELSE @,
            !.messages = Append(@, "New Write Errors detected! (+"
                                   \o ToString(write_diff) \o ")")]
    ELSE res

\* "if write_diff > 0"
WriteErrMessage(res, write_diff) ==
    IF write_diff > 0
    THEN [res EXCEPT
            !.messages = Append(@, "New Write Errors detected! (+"
                                   \o ToString(write_diff) \o ")")]
    ELSE res

\* step "Check immediate rapid change", rows being the two latest samples
ImmediateChange(res, rows) ==
    IF Len(rows) > 1
    THEN LET current == rows[1]
             prev == rows[2]
             rsc_diff == current.reallocated_sectors - prev.reallocated_sectors
             read_diff == current.read_errors - prev.read_errors
             write_diff == OrZero(current.write_errors) - OrZero(prev.write_errors)
         IN  WriteErrMessage(
                ReadErrMessage(RscEscalation(res, rsc_diff), read_diff),
                write_diff)
    ELSE res

\* str(result['messages']): the repr of a list of strings
RECURSIVE JoinRepr(_, _)
JoinRepr(messages, k) ==
    IF k > Len(messages) THEN ""
    ELSE (IF k > 1 THEN ", " ELSE "") \o "'" \o messages[k] \o "'"
         \o JoinRepr(messages, k + 1)

StrOfList(messages) == "[" \o JoinRepr(messages, 1) \o "]"

\* the absolute check asking for more than one reallocated sector
AbsoluteThresholdAboveOne(res, current) ==
    IF current.reallocated_sectors > 1 /\ res.status = "OK"
    THEN IF ~Contains(StrOfList(res.messages), "reallocated_sectors")
         THEN [res EXCEPT
                 !.status = "WARNING",
                 !.messages = Append(@, "Has " \o ToString(current.reallocated_sectors)
                                        \o " Reallocated Sectors.")]
         ELSE [res EXCEPT !.status = "WARNING"]
    ELSE res

\* the absolute check promoting the status without a message
AbsoluteThresholdSilent(res, current) ==
    IF current.reallocated_sectors > 0 /\ res.status = "OK"
    THEN [res EXCEPT !.status = "WARNING"]
    ELSE res

\* the absolute check setting WARNING whatever the status was
AbsoluteThresholdOverrides(res, current) ==
    IF current.reallocated_sectors > 0
    THEN IF res.status = "OK" /\ ~Contains(StrOfList(res.messages), "reallocated_sectors")
         THEN [res EXCEPT
                 !.status = "WARNING",
                 !.messages = Append(@, "Has " \o ToString(current.reallocated_sectors)
                                        \o " Reallocated Sectors.")]
         ELSE [res EXCEPT !.status = "WARNING"]
    ELSE res

\* step "Absolute thresholds"
AbsoluteThreshold(res, current) ==
    IF current.reallocated_sectors > 0 /\ res.status = "OK"
    THEN IF ~Contains(StrOfList(res.messages), "reallocated_sectors")
         THEN [res EXCEPT
                 !.status = "WARNING",
                 !.messages = Append(@, "Has " \o ToString(current.reallocated_sectors)
                                        \o " Reallocated Sectors.")]
         ELSE [res EXCEPT !.status = "WARNING"]
    ELSE res

EmptyResult ==
    [status |-> "OK", messages |-> <<>>, rsc_trend |-> 0, read_err_trend |-> 0]

\* analyze_trend without its absolute check
analyze_trend_no_absolute(rows, oldest) ==
    IF rows = <<>> THEN EmptyResult
    ELSE ImmediateChange(SinceFirstScan(EmptyResult, rows[1], oldest), rows)

\* analyze_trend on what its two queries returned: rows (the latest two
\* samples, newest first) and oldest (None or the first sample)
analyze_trend(rows, oldest) ==
    IF rows = <<>> THEN EmptyResult
    ELSE AbsoluteThreshold(
            ImmediateChange(SinceFirstScan(EmptyResult, rows[1], oldest), rows),
            rows[1])

\* the rows an order of rowids stands for
RowsOf(table, order) == [k \in 1..Len(order) |-> table[order[k]]]

NoCall == [op |-> "none"]

----------------------------------------------------------------------------
(* The polling loop at rest, for the specifications that do not run it *)

NoError == "none"

\* the ghost record of the n-th cycle at its start: the scan has not failed
\* and no device has raised; after is what failed in the cycle before it,
\* kept until the scan
CycleStart(n) ==
    [n |-> n, scan_failed |-> FALSE, error |-> NoError, dev |-> "none",
     after |-> NoError]

LoopIdle ==
    /\ running = TRUE
    /\ disks_data = EmptyDict
    /\ pc = "while"
    /\ devices = <<>>
    /\ idx = 0
    /\ new_data = EmptyDict
    /\ overall_status = "green"
    /\ icon = "green"
    /\ current_data = None
    /\ cycle = CycleStart(0)

----------------------------------------------------------------------------
(* SpecPure: the scorer and the classifier applied to every bounded input *)

\* the calls to make: each input of the scorer and of the classifier
PureCalls ==
    {[op |-> "score", data |-> data, ret |-> None] : data \in Snapshots}
    \cup
    {[op |-> "classify", id |-> id_, raw |-> raw, normalized |-> normalized,
      threshold |-> threshold, rotation_rate |-> rotation_rate, ret |-> None] :
        id_ \in AttrIds, raw \in ClassifyRaws, normalized \in NormValues,
        threshold \in ThreshValues, rotation_rate \in RotationRates}

InitPure ==
    /\ call \in PureCalls
    /\ db = <<>>
    /\ now = 0
    /\ LoopIdle

CalculateHealthScore ==
    /\ call.op = "score" /\ call.ret = None
    /\ call' = [call EXCEPT !.ret = Some(_calculate_health_score(call.data))]
    /\ UNCHANGED <<histVars, loopVars>>

AnalyzeSmartAttribute ==
    /\ call.op = "classify" /\ call.ret = None
    /\ call' = [call EXCEPT
                  !.ret = Some(analyze_smart_attribute(
                                  call.id, call.raw, call.normalized,
                                  call.threshold, call.rotation_rate))]
    /\ UNCHANGED <<histVars, loopVars>>

NextPure == CalculateHealthScore \/ AnalyzeSmartAttribute

SpecPure == InitPure /\ [][NextPure]_vars

----------------------------------------------------------------------------
(* SpecHistory: DiskHistory's operations, called in any order *)

\* limits given to get_io_history
Limits == {1, 2}

InitHistory ==
    /\ call = NoCall
    /\ db = <<>>
    /\ now = 0
    /\ LoopIdle

\* log_status(serial, rsc, read_err, hours, pending, io_load): the insert is
\* stamped with the clock, and time passes during the call
LogStatus ==
    /\ Len(db) < MaxRows
    /\ \E serial \in Serials, rsc \in RscValues :
          /\ db' = log_status(db, serial, rsc, 0, 0, 0, 0, Some(0), now)
          /\ call' = [op |-> "log_status", serial |-> serial, rsc |-> rsc,
                      raised |-> FALSE]
    /\ now' = now + 1
    /\ UNCHANGED loopVars

\* log_status when sqlite3 raises (store unreachable, write rejected)
LogStatusRaises ==
    /\ call' = [op |-> "log_status", raised |-> TRUE]
    /\ UNCHANGED <<histVars, loopVars>>

\* the wall clock is set back (datetime.now() is local time: end of daylight
\* saving time, a time correction)
ClockSetBack ==
    /\ Len(db) < MaxRows
    /\ now > 0
    /\ \E t \in 0..(now - 1) : now' = t
    /\ UNCHANGED <<call, db, loopVars>>

GetIoHistory ==
    /\ \E serial \in Serials, limit \in Limits :
       \E order \in AscOrders(db, serial) :
          call' = [op |-> "get_io_history", serial |-> serial, limit |-> limit,
                   ret |-> get_io_history(db, order, limit)]
    /\ UNCHANGED <<histVars, loopVars>>

GetLatestStats ==
    /\ \E serial \in Serials :
       \E order \in DescOrders(db, serial) :
          call' = [op |-> "get_latest_stats", serial |-> serial,
                   ret |-> get_latest_stats(db, order)]
    /\ UNCHANGED <<histVars, loopVars>>

\* what analyze_trend's two queries may return for a serial on a table: rows
\* (DESC LIMIT 2, fetchall) and oldest (ASC LIMIT 1, fetchone)
TrendQueries(table, serial) ==
    {[rows |-> RowsOf(table, Limit(d, 2)),
      oldest |-> IF a = <<>> THEN None ELSE Some(table[a[1]])] :
        d \in DescOrders(table, serial), a \in AscOrders(table, serial)}

\* the results analyze_trend may return for a serial on a table
TrendResults(table, serial) ==
    {analyze_trend(q.rows, q.oldest) : q \in TrendQueries(table, serial)}

\* analyze_trend(serial); the call keeps what the two queries returned
AnalyzeTrend ==
    /\ \E serial \in Serials :
       \E q \in TrendQueries(db, serial) :
          call' = [op |-> "analyze_trend", serial |-> serial,
                   rows |-> q.rows, oldest |-> q.oldest,
                   ret |-> analyze_trend(q.rows, q.oldest)]
    /\ UNCHANGED <<histVars, loopVars>>

NextHistory ==
    \/ LogStatus
    \/ LogStatusRaises
    \/ ClockSetBack
    \/ GetIoHistory
    \/ GetLatestStats
    \/ AnalyzeTrend

SpecHistory == InitHistory /\ [][NextHistory]_vars

----------------------------------------------------------------------------
(* SpecSchema: history.py's _init_db, run at every start of the application
   on the store the earlier runs left *)

\* the columns of CREATE TABLE disk_stats
BaseColumns ==
    <<"id", "serial_number", "timestamp", "reallocated_sectors", "read_errors",
      "power_on_hours", "pending_sectors">>

IndexName == "idx_serial_time"

\* the column lists an earlier version of the program may have left: before
\* the migrations, after the first, after both
SchemaVersions ==
    {BaseColumns,
     BaseColumns \o <<"io_load">>,
     BaseColumns \o <<"io_load", "write_errors">>}

\* a database file without the table
NoTable == [exists |-> FALSE, columns |-> <<>>, indices |-> {}, rows |-> <<>>]

\* the k-th sample as stored under the given columns; io_load and write_errors
\* are nullable and hold what log_status was given
StoredRow(k, serial, rsc, columns) ==
    [c \in {columns[j] : j \in 1..Len(columns)} |->
        IF c = "id" THEN k
        ELSE IF c = "serial_number" THEN serial
        ELSE IF c = "timestamp" THEN k - 1
        ELSE IF c = "reallocated_sectors" THEN rsc
        ELSE IF c \in {"io_load", "write_errors"} THEN Some(0)
        ELSE 0]

\* the stores _init_db may find: no table, or the table of an earlier version
\* with or without the index and with the samples logged so far
Stores ==
    {NoTable}
    \cup {[exists |-> TRUE, columns |-> cols, indices |-> ix,
           rows |-> [k \in 1..Len(f) |-> StoredRow(k, f[k].serial, f[k].rsc, cols)]] :
             cols \in SchemaVersions,
             ix \in {{}, {IndexName}},
             f \in SeqsUpTo([serial : Serials, rsc : StoredRscValues], MaxRows)}

\* CREATE TABLE IF NOT EXISTS disk_stats (...)
CreateTable(s) ==
    IF s.exists THEN s
    ELSE [s EXCEPT !.exists = TRUE, !.columns = BaseColumns]

\* ALTER TABLE disk_stats ADD COLUMN col [DEFAULT default]: sqlite raises
\* OperationalError (duplicate column name) when the column is there, and
\* otherwise adds it, the rows getting the default (NULL without DEFAULT)
AddColumn(s, col, default) ==
    IF col \in {s.columns[j] : j \in 1..Len(s.columns)}
    THEN [raised |-> TRUE, store |-> s]
    ELSE [raised |-> FALSE,
          store |-> [s EXCEPT
                       !.columns = Append(@, col),
                       !.rows = [k \in 1..Len(s.rows) |->
                                    [c \in DOMAIN s.rows[k] \cup {col} |->
                                        IF c = col THEN default ELSE s.rows[k][c]]]]]

\* the migration without its except clause
MigrateUncaught(s, col, default) == AddColumn(s, col, default)

\* try: ALTER TABLE ... except sqlite3.OperationalError: pass
Migrate(s, col, default) ==
    [raised |-> FALSE, store |-> AddColumn(s, col, default).store]

\* CREATE INDEX IF NOT EXISTS idx_serial_time ON disk_stats (...)
CreateIndex(s) == [s EXCEPT !.indices = @ \cup {IndexName}]

\* _init_db on a store: whether it raised, and the store it leaves (the one it
\* found when it raised before the commit)
_init_db(s) ==
    LET created == CreateTable(s)
        io_load == Migrate(created, "io_load", None)
        write_errors == Migrate(io_load.store, "write_errors", Some(0))
    IN  IF io_load.raised \/ write_errors.raised
        THEN [raised |-> TRUE, store |-> s]
        ELSE [raised |-> FALSE, store |-> CreateIndex(write_errors.store)]

InitSchema ==
    /\ call \in {[op |-> "_init_db", found |-> s, store |-> s, runs |-> 0,
                  raised |-> FALSE, logged |-> FALSE] : s \in Stores}
    /\ db = <<>>
    /\ now = 0
    /\ LoopIdle

\* DiskHistory() at a start of the application: _init_db runs on the store
InitDb ==
    /\ call.runs < MaxInitRuns
    /\ LET r == _init_db(call.store)
       IN  call' = [call EXCEPT !.store = r.store, !.raised = r.raised,
                                !.runs = @ + 1, !.logged = FALSE]
    /\ UNCHANGED <<histVars, loopVars>>

\* log_status between two starts: a sample is appended under all the columns
SchemaLogStatus ==
    /\ call.runs >= 1
    /\ ~call.raised
    /\ Len(call.store.rows) < MaxRows
    /\ \E serial \in Serials, rsc \in StoredRscValues :
          call' = [call EXCEPT
                     !.store.rows =
                         Append(@, StoredRow(Len(@) + 1, serial, rsc,
                                             call.store.columns)),
                     !.logged = TRUE]
    /\ UNCHANGED <<histVars, loopVars>>

NextSchema == InitDb \/ SchemaLogStatus

SpecSchema == InitSchema /\ [][NextSchema]_vars

----------------------------------------------------------------------------
(* SpecTrend: analyze_trend on the samples of one drive that carry read and
   write errors *)

\* read_err given to log_status
ReadErrValues == {0, 2}

\* write_err given to log_status: NULL (None passed for it), 0 (the default)
\* or a count
WriteErrValues == {None, Some(0), Some(1)}

InitTrend ==
    /\ call = NoCall
    /\ db = <<>>
    /\ now = 0
    /\ LoopIdle

\* log_status(serial, rsc, read_err, hours, pending, io_load, write_err)
LogStatusErrors ==
    /\ Len(db) < MaxRows
    /\ \E rsc \in StoredRscValues, read_err \in ReadErrValues,
          write_err \in WriteErrValues :
          /\ db' = log_status(db, "A", rsc, read_err, 0, 0, 0, write_err, now)
          /\ call' = [op |-> "log_status", serial |-> "A", rsc |-> rsc,
                      raised |-> FALSE]
    /\ now' = now + 1
    /\ UNCHANGED loopVars

NextTrend == LogStatusErrors \/ AnalyzeTrend

SpecTrend == InitTrend /\ [][NextTrend]_vars

----------------------------------------------------------------------------
(* ui.py: the polling thread (_monitor_loop), the presentation thread
   (_refresh_dashboard) and exit_app *)

Devices == <<"/dev/sda", "/dev/sdb">>

\* the serial number the drive behind a device reports
SerialOf(dev) == IF dev = "/dev/sda" THEN "A" ELSE "B"

\* raw reallocated-sector counts the drives report
LoopRaws == {0, 1}

\* what smartctl -a may give for a device: nothing usable (an empty dict:
\* the tool cannot be run, prints nothing or prints no JSON), its JSON report
\* of a run that failed with a non-zero exit status (the return code is not
\* read; exit_status stands for data["smartctl"]["exit_status"]), a snapshot
\* without serial number, or a snapshot with the drive's serial
AcquiredSnapshots(dev) ==
    {EmptyDict}
    \cup {[exit_status |-> 2]}
    \cup {[passed |-> TRUE, table |-> <<[id |-> 5, raw |-> 0]>>]}
    \cup {[serial_number |-> SerialOf(dev), passed |-> p,
           table |-> <<[id |-> 5, raw |-> r]>>] :
             p \in BOOLEAN, r \in LoopRaws}

\* what scan_disks may return: the device names, or [] when the scan fails
\* (exception caught, non-zero exit) or finds nothing
ScanResults == {SubSeq(Devices, 1, k) : k \in 0..Len(Devices)}

\* get_disk_health after acquisition: a non-empty snapshot gets its score
get_disk_health(data) ==
    IF data = EmptyDict THEN data
    ELSE data @@ [health_score |-> _calculate_health_score(data)]

\* the for loop over the attribute table that extracts rsc, read_err, pending
RECURSIVE ExtractStats(_, _, _)
ExtractStats(table, k, stats) ==
    IF k > Len(table) THEN stats
    ELSE LET id_ == table[k].id
             raw_val == table[k].raw
         IN  ExtractStats(table, k + 1,
                IF id_ = 5 THEN [stats EXCEPT !.rsc = raw_val]
                ELSE IF id_ = 1 THEN [stats EXCEPT !.read_err = raw_val]
                ELSE IF id_ = 197 THEN [stats EXCEPT !.pending = raw_val]
                ELSE stats)

StatsOf(data) ==
    ExtractStats(Get(data, "table", <<>>), 1,
                 [rsc |-> 0, read_err |-> 0, pending |-> 0])

\* the serial read without the "Unknown" default
SerialInNoDefault(data) == Get(data, "serial_number", "")

\* serial = data.get("serial_number") or ... or "Unknown"
SerialIn(data) == Get(data, "serial_number", "Unknown")

\* overall_status after a device with the given analysis
OverallAfter(overall, data, analysis) ==
    IF analysis.status # "OK"
    THEN IF ~Get(data, "passed", TRUE) \/ analysis.status = "CRITICAL"
         THEN "red" ELSE "yellow"
    ELSE overall

\* d with key k set to v
Put(d, k, v) == [x \in (DOMAIN d) \cup {k} |-> IF x = k THEN v ELSE d[x]]

\* the shared map after the loop body wrote the local map instead of leaving
\* the shared one alone
SharedWrittenInLoop(shared, local) == local

\* the for loop body assigns new_data[dev] only: self.disks_data keeps its
\* value while the local map is built
SharedDuringLoop(shared, local) == shared

\* what disk_history.db may hold when the application starts: nothing, or a
\* sample of an earlier run
PersistedTables == {<<>>, <<NewRow("A", 0, 0, 0, 0, 0, Some(0), 0)>>}

\* After DiskMonitorApp.__init__: the table as an earlier run left it, the
\* clock at or after its last timestamp (or set back to it), the cache file
\* absent or holding the map of an earlier run
Init ==
    /\ call = NoCall
    /\ db \in PersistedTables
    /\ now \in 0..Len(db)
    /\ running = TRUE
    /\ disks_data \in
         {EmptyDict,
          [d \in {"/dev/sda"} |->
              get_disk_health([passed |-> TRUE, table |-> <<[id |-> 5, raw |-> 0]>>])]}
    /\ pc = "while"
    /\ devices = <<>>
    /\ idx = 0
    /\ new_data = EmptyDict
    /\ overall_status = "green"
    /\ icon = "green"
    /\ current_data = None
    /\ cycle = CycleStart(0)

\* "while self.running:"
WhileRunning ==
    /\ pc = "while"
    /\ pc' = IF running THEN "scan" ELSE "done"
    /\ cycle' = IF running
                THEN [CycleStart(cycle.n + 1) EXCEPT
                         !.after = IF cycle.scan_failed THEN "scan_disks"
                                   ELSE cycle.error]
                ELSE CycleStart(cycle.n)
    /\ UNCHANGED <<call, histVars, running, disks_data, devices, idx, new_data,
                   overall_status, icon, current_data>>

\* devices = scan_disks(); update_io_stats(); overall_status = "green";
\* new_data = {}. scan_disks catches its own failures and returns []. The
\* model follows the loop up to the start of the cycle after MaxCycles.
ScanDisks ==
    /\ pc = "scan"
    /\ cycle.n <= MaxCycles
    /\ \E failed \in BOOLEAN :
       \E found \in (IF failed THEN {<<>>} ELSE ScanResults) :
          /\ devices' = found
          /\ cycle' = [cycle EXCEPT !.scan_failed = failed, !.after = NoError]
    /\ overall_status' = "green"
    /\ new_data' = EmptyDict
    /\ idx' = 0
    /\ pc' = "for"
    /\ UNCHANGED <<call, histVars, running, disks_data, icon, current_data>>

\* one pass of the for loop body for devices[idx + 1], without exception
ProcessDevice ==
    /\ pc = "for"
    /\ idx < Len(devices)
    /\ LET dev == devices[idx + 1]
       IN  \E acquired \in AcquiredSnapshots(dev) :
           LET data == get_disk_health(acquired)
               serial == SerialIn(data)
               stats == StatsOf(data)
               hours == Get(data, "hours", 0)
           IN  IF serial # "Unknown"
               THEN /\ Len(db) < MaxRows
                    /\ db' = log_status(db, serial, stats.rsc, stats.read_err,
                                        hours, stats.pending, 0, Some(0), now)
                    /\ now' = now + 1
                    /\ \E analysis \in TrendResults(db', serial) :
                          /\ new_data' = Put(new_data, dev,
                                data @@ [analysis |-> analysis, stats |-> stats])
                          /\ overall_status' =
                                OverallAfter(overall_status, data, analysis)
               ELSE /\ new_data' = Put(new_data, dev, data)
                    /\ UNCHANGED <<histVars, overall_status>>
    /\ idx' = idx + 1
    /\ disks_data' = SharedDuringLoop(disks_data, new_data')
    /\ UNCHANGED <<call, running, pc, devices, icon, current_data, cycle>>

\* the thread ending on the exception instead of catching it
AfterExceptionUncaught == "done"

\* where "except Exception" leaves the polling thread: at time.sleep(60),
\* inside the while loop
AfterException == "sleep"

\* the for loop body raising: in get_disk_health (scoring, enrichment), in
\* log_status, or in analyze_trend after the sample was written. The
\* exception leaves the try block: "except Exception" prints it.
ProcessDeviceRaises ==
    /\ pc = "for"
    /\ idx < Len(devices)
    /\ \E where \in {"get_disk_health", "log_status", "analyze_trend"} :
          /\ cycle' = [cycle EXCEPT !.error = where, !.dev = devices[idx + 1]]
          /\ IF where = "analyze_trend"
             THEN /\ Len(db) < MaxRows
                  /\ \E r \in LoopRaws :
                        db' = log_status(db, SerialOf(devices[idx + 1]), r, 0, 0, 0,
                                         0, Some(0), now)
                  /\ now' = now + 1
             ELSE UNCHANGED histVars
    /\ pc' = AfterException
    /\ UNCHANGED <<call, running, disks_data, devices, idx, new_data,
                   overall_status, icon, current_data>>

\* after the for loop: "with self.lock: self.disks_data = new_data", then the
\* cache is saved and the icon updated. The assignment is the whole critical
\* section, so it is one step with respect to the reader's.
SwapIn ==
    /\ pc = "for"
    /\ idx = Len(devices)
    /\ disks_data' = new_data
    /\ icon' = overall_status
    /\ pc' = "sleep"
    /\ UNCHANGED <<call, histVars, running, devices, idx, new_data,
                   overall_status, current_data, cycle>>

\* time.sleep(60)
Sleep ==
    /\ pc = "sleep"
    /\ pc' = "while"
    /\ UNCHANGED <<call, histVars, running, disks_data, devices, idx, new_data,
                   overall_status, icon, current_data, cycle>>

\* _refresh_dashboard on the presentation thread:
\* "with self.lock: current_data = self.disks_data.copy()"
RefreshDashboard ==
    /\ pc # "exited"
    /\ current_data = None
    /\ current_data' = Some(disks_data)
    /\ UNCHANGED <<call, histVars, running, disks_data, pc, devices, idx,
                   new_data, overall_status, icon, cycle>>

\* _refresh_dashboard draws the table from its copy and returns
RefreshDone ==
    /\ pc # "exited"
    /\ current_data # None
    /\ current_data' = None
    /\ UNCHANGED <<call, histVars, running, disks_data, pc, devices, idx,
                   new_data, overall_status, icon, cycle>>

\* exit_app on the tray thread: self.running = False
ExitApp ==
    /\ pc # "exited"
    /\ running
    /\ running' = FALSE
    /\ UNCHANGED <<call, histVars, disks_data, pc, devices, idx, new_data,
                   overall_status, icon, current_data, cycle>>

\* _exit_main on the main thread: the process ends and the daemon polling
\* thread with it, wherever it is
ExitMain ==
    /\ ~running
    /\ pc # "exited"
    /\ pc' = "exited"
    /\ UNCHANGED <<call, histVars, running, disks_data, devices, idx, new_data,
                   overall_status, icon, current_data, cycle>>

\* time.sleep(60) during which the wall clock is set back
SleepClockSetBack ==
    /\ pc = "sleep"
    /\ Len(db) < MaxRows
    /\ now > 0
    /\ \E t \in 0..(now - 1) : now' = t
    /\ pc' = "while"
    /\ UNCHANGED <<call, db, running, disks_data, devices, idx, new_data,
                   overall_status, icon, current_data, cycle>>

Next ==
    \/ WhileRunning
    \/ ScanDisks
    \/ ProcessDevice
    \/ ProcessDeviceRaises
    \/ SwapIn
    \/ Sleep
    \/ RefreshDashboard
    \/ RefreshDone
    \/ ExitApp
    \/ ExitMain
    \/ SleepClockSetBack

Spec == Init /\ [][Next]_vars

\* After DiskMonitorApp.__init__ on a fresh installation: _init_db created an
\* empty table and there is no cache file
InitFresh == Init /\ db = <<>> /\ disks_data = EmptyDict

\* The polling thread is a thread of its own: it is scheduled whenever it can
\* run, and time.sleep(60) returns
SpecLive ==
    /\ InitFresh /\ [][Next]_vars
    /\ WF_vars(SwapIn) /\ WF_vars(Sleep) /\ WF_vars(WhileRunning)

----------------------------------------------------------------------------
(* Properties of the scorer and the classifier, under SpecPure *)

ScoreReturned == call.op = "score" /\ call.ret # None
ClassifyReturned == call.op = "classify" /\ call.ret # None

\* C2: the score of every snapshot is an integer in [0,100], on the SMART
\* failed path, the NVMe path (percentage_used outside 0..100 included) and
\* the ATA path.
C2_ScoreInRange == ScoreReturned => call.ret[1] \in 0..100

\* C3: whenever threshold and normalized are both present, threshold > 0 and
\* normalized <= threshold (normalized = 0 included), the classifier returns
\* (CRITICAL, "Failed Threshold"), whatever the attribute ID and raw value.
\* The code spells the status "CRIT".
C3_FailedThreshold ==
    (/\ ClassifyReturned
     /\ call.threshold # None /\ call.normalized # None
     /\ call.threshold[1] > 0
     /\ call.normalized[1] <= call.threshold[1])
    => call.ret[1] = <<"CRIT", "Failed Threshold">>

\* the snapshot's SMART status is present and false
SmartFailed(data) == "passed" \in DOMAIN data /\ data.passed = FALSE

\* C13: for every snapshot whose smart_status.passed is false the score is 0,
\* whatever the NVMe log and the ATA attribute rows hold.
C13_FailedScoresZero ==
    (ScoreReturned /\ SmartFailed(call.data)) => call.ret[1] = 0

\* C13 witness: a failed snapshot with an NVMe log that alone would score 70
\* and an attribute table, scored
C13_Witness ==
    /\ ScoreReturned
    /\ SmartFailed(call.data)
    /\ "percentage_used" \in DOMAIN call.data
    /\ call.data.percentage_used = 30
    /\ Len(call.data.table) = MaxTable

\* C14: for a snapshot whose SMART status has not failed and whose NVMe log
\* holds percentage_used = p, the score is max(0, 100 - p) (70 for p = 30, 0
\* for p = 150), whatever ATA attribute rows the snapshot holds.
C14_NvmeScore ==
    (/\ ScoreReturned
     /\ ~SmartFailed(call.data)
     /\ "percentage_used" \in DOMAIN call.data)
    => LET p == call.data.percentage_used
       IN  /\ call.ret[1] = (IF 100 - p >= 0 THEN 100 - p ELSE 0)
           /\ p = 30 => call.ret[1] = 70
           /\ p = 150 => call.ret[1] = 0

\* C14 witness: an NVMe snapshot with p = 30 that also holds a penalised
\* reallocated-sector row, scored
C14_Witness ==
    /\ ScoreReturned
    /\ ~SmartFailed(call.data)
    /\ "percentage_used" \in DOMAIN call.data
    /\ call.data.percentage_used = 30
    /\ \E k \in 1..Len(call.data.table) :
          call.data.table[k].id = 5 /\ call.data.table[k].raw > 0

\* the snapshot takes the ATA path of the scorer
AtaPath(data) == ~SmartFailed(data) /\ "percentage_used" \notin DOMAIN data

\* the snapshot with its attribute table replaced
WithTable(data, t) == [data EXCEPT !.table = t]

\* the attribute IDs the scorer penalises, and rows of IDs it does not
PenalisedIds == {5, 197, 198, 187}
UnrelatedRows == [id : {1, 9, 199}, raw : ScoreRaws]

\* seq without its k-th element, and seq with x put after its first j elements
RemoveAt(seq, k) == SubSeq(seq, 1, k - 1) \o SubSeq(seq, k + 1, Len(seq))
InsertAfter(seq, j, x) == SubSeq(seq, 1, j) \o <<x>> \o SubSeq(seq, j + 1, Len(seq))

\* C15: on the ATA path the score does not increase when the raw count of a
\* row of ID 5, 197, 198 or 187 is raised with the other rows fixed, and it
\* does not change when a row of another ID is added, removed or changed.
C15_MonotoneAndInvariant ==
    (ScoreReturned /\ AtaPath(call.data)) =>
        LET data == call.data
            t == data.table
            score == call.ret[1]
        IN  /\ \A k \in 1..Len(t) : \A r \in ScoreRaws :
                   (t[k].id \in PenalisedIds /\ r >= t[k].raw) =>
                       _calculate_health_score(
                           WithTable(data, [t EXCEPT ![k].raw = r])) <= score
            /\ \A k \in 1..Len(t) :
                   t[k].id \notin PenalisedIds =>
                       /\ _calculate_health_score(WithTable(data, RemoveAt(t, k)))
                              = score
                       /\ \A row \in UnrelatedRows :
                              _calculate_health_score(
                                  WithTable(data, [t EXCEPT ![k] = row])) = score
            /\ \A j \in 0..Len(t) : \A row \in UnrelatedRows :
                   _calculate_health_score(WithTable(data, InsertAfter(t, j, row)))
                       = score

\* C15 witness: an ATA snapshot with a penalised row below the cap and a row
\* of an unrelated ID, scored
C15_Witness ==
    /\ ScoreReturned
    /\ AtaPath(call.data)
    /\ \E k, j \in 1..Len(call.data.table) :
          /\ call.data.table[k].id = 5
          /\ call.data.table[k].raw = 25
          /\ call.data.table[j].id \notin PenalisedIds
    /\ call.ret[1] < 100

\* the penalty of a row as the scoring rules state it
StatedPenalty(row) ==
    IF row.raw <= 0 THEN 0
    ELSE CASE row.id = 5 -> 10 + (IF row.raw < 40 THEN row.raw ELSE 40)
           [] row.id = 197 -> 5 + (IF row.raw < 20 THEN row.raw ELSE 20)
           [] row.id = 198 -> 5 + (IF row.raw < 20 THEN row.raw ELSE 20)
           [] row.id = 187 -> (IF row.raw < 50 THEN row.raw ELSE 50)
           [] OTHER -> 0

RECURSIVE SumPenalties(_)
SumPenalties(t) ==
    IF t = <<>> THEN 0 ELSE StatedPenalty(Head(t)) + SumPenalties(Tail(t))

\* the permutations of 1..n
Perms(n) == {f \in [1..n -> 1..n] : \A a, b \in 1..n : f[a] = f[b] => a = b}

\* C16: on the ATA path the score is max(0, 100 - sum of the rows'
\* penalties), every row taking its penalty (10+min(raw,40) for ID 5,
\* 5+min(raw,20) for IDs 197 and 198, min(raw,50) for ID 187, when raw > 0),
\* and every permutation of the rows gives the same score.
C16_AdditivePenalties ==
    (ScoreReturned /\ AtaPath(call.data)) =>
        LET t == call.data.table
            total == 100 - SumPenalties(t)
        IN  /\ call.ret[1] = (IF total >= 0 THEN total ELSE 0)
            /\ \A f \in Perms(Len(t)) :
                   _calculate_health_score(
                       WithTable(call.data, [k \in 1..Len(t) |-> t[f[k]]]))
                     = call.ret[1]

\* C16 witness: an ATA snapshot with two penalised rows of different IDs,
\* both taken off the score
C16_Witness ==
    /\ ScoreReturned
    /\ AtaPath(call.data)
    /\ Len(call.data.table) = 2
    /\ call.data.table[1] = [id |-> 187, raw |-> 60]
    /\ call.data.table[2] = [id |-> 5, raw |-> 25]
    /\ call.ret[1] = 15

\* the threshold rule as stated: both values present, threshold > 0 and
\* normalized <= threshold
StatedThresholdRule(normalized, threshold) ==
    /\ normalized # None /\ threshold # None
    /\ threshold[1] > 0
    /\ normalized[1] <= threshold[1]

\* the wear-related attribute IDs
WearIds == {169, 173, 230, 231, 232, 233}

\* the classification by attribute ID and raw count as stated, the statuses
\* in the code's spelling ("CRIT" for CRITICAL, "WARN" for WARNING)
StatedClass(id_, raw) ==
    CASE id_ = 5 /\ raw > 10 -> <<"CRIT", ToString(raw) \o " bad sectors">>
      [] id_ = 5 /\ raw > 0 /\ raw <= 10 -> <<"WARN", ToString(raw) \o " bad sectors">>
      [] id_ = 197 /\ raw > 0 -> <<"WARN", ToString(raw) \o " unstable sectors">>
      [] id_ \in {198, 187} /\ raw > 0 -> <<"CRIT", ToString(raw) \o " uncorrectable">>
      [] id_ = 199 /\ raw > 0 -> <<"WARN", "Check Cable">>
      [] OTHER -> <<"OK", "Good">>

\* C17: when the threshold rule does not fire, the classifier dispatches on
\* the attribute ID: ID 5 is CRITICAL "{raw} bad sectors" for raw > 10,
\* WARNING "{raw} bad sectors" for 0 < raw <= 10 and OK "Good" for raw = 0;
\* ID 197 with raw > 0 is WARNING "{raw} unstable sectors"; IDs 198 and 187
\* with raw > 0 are CRITICAL "{raw} uncorrectable"; ID 199 with raw > 0 is
\* WARNING "Check Cable"; every other ID (the wear IDs apart) and every
\* non-matching case is OK "Good".
C17_DispatchOnId ==
    (/\ ClassifyReturned
     /\ ~StatedThresholdRule(call.normalized, call.threshold)
     /\ call.id \notin WearIds)
    => call.ret[1] = StatedClass(call.id, call.raw)

\* C17 witness: a reallocated count of 10, the largest that is a warning,
\* classified with a normalized value above a present threshold
C17_Witness ==
    /\ ClassifyReturned
    /\ call.id = 5
    /\ call.raw = 10
    /\ call.normalized = Some(50)
    /\ call.threshold = Some(10)
    /\ call.ret[1] = <<"WARN", "10 bad sectors">>

\* C18: for the wear IDs, when the threshold rule does not fire, the
\* classifier returns CRITICAL "Wearing Out" exactly when rotation_rate = 0
\* and normalized is present and below 10 (0 included); with a rotation rate
\* other than 0 it returns OK "Good".
C18_WearingOut ==
    (/\ ClassifyReturned
     /\ ~StatedThresholdRule(call.normalized, call.threshold)
     /\ call.id \in WearIds)
    => /\ call.ret[1] = <<"CRIT", "Wearing Out">>
            <=> (/\ call.rotation_rate = 0
                 /\ call.normalized # None
                 /\ call.normalized[1] < 10)
       /\ call.rotation_rate # 0 => call.ret[1] = <<"OK", "Good">>

----------------------------------------------------------------------------
(* Properties of the history store and the trend analyser, under SpecHistory *)

\* is x an element of the sequence
InSeq(x, seq) == \E k \in 1..Len(seq) : seq[k] = x

\* the samples of a serial were stamped with increasing timestamps
TimestampsIncreasing(table, serial) ==
    \A a, b \in RowIds(table, serial) :
        a < b => table[a].timestamp < table[b].timestamp

\* the n-th sample of a serial in insertion order
NthId(table, serial, n) ==
    CHOOSE k \in RowIds(table, serial) :
        Cardinality({j \in RowIds(table, serial) : j <= k}) = n

SampleCount(table, serial) == Cardinality(RowIds(table, serial))

\* the reallocated_sectors of the first, the last but one and the last sample
\* logged for a serial
FirstRsc(table, serial) == table[NthId(table, serial, 1)].reallocated_sectors
PrevRsc(table, serial) ==
    table[NthId(table, serial, SampleCount(table, serial) - 1)].reallocated_sectors
LastRsc(table, serial) ==
    table[NthId(table, serial, SampleCount(table, serial))].reallocated_sectors

TrendReturned == call.op = "analyze_trend"

\* C1: with the samples of a serial logged at increasing timestamps, if the
\* last sample's reallocated_sectors exceeds the previous one's by d > 0 then
\* analyze_trend returns CRITICAL with "New Reallocated Sectors detected!
\* (+d)", and if it also exceeds the first sample's by g > 0 the messages
\* contain "Reallocated Sectors increased by g since first scan.".
C1_TrendEscalation ==
    (/\ TrendReturned
     /\ SampleCount(db, call.serial) >= 2
     /\ TimestampsIncreasing(db, call.serial)
     /\ LastRsc(db, call.serial) > PrevRsc(db, call.serial))
    => LET d == LastRsc(db, call.serial) - PrevRsc(db, call.serial)
           g == LastRsc(db, call.serial) - FirstRsc(db, call.serial)
       IN  /\ call.ret.status = "CRITICAL"
           /\ InSeq("New Reallocated Sectors detected! (+" \o ToString(d) \o ")",
                    call.ret.messages)
           /\ g > 0 =>
                InSeq("Reallocated Sectors increased by " \o ToString(g)
                      \o " since first scan.", call.ret.messages)

\* C1 witness: three samples, the last above the previous by d and above the
\* first by a different g, analysed
C1_Witness ==
    /\ TrendReturned
    /\ SampleCount(db, call.serial) = 3
    /\ TimestampsIncreasing(db, call.serial)
    /\ LastRsc(db, call.serial) - PrevRsc(db, call.serial) = 2
    /\ LastRsc(db, call.serial) - FirstRsc(db, call.serial) = 1

\* C8: with exactly one sample of a serial, analyze_trend returns OK and no
\* message when its reallocated_sectors is 0, and WARNING with the single
\* message "Has n Reallocated Sectors." when it is n > 0.
C8_SingleSample ==
    (TrendReturned /\ SampleCount(db, call.serial) = 1)
    => LET n == LastRsc(db, call.serial)
       IN  IF n = 0
           THEN call.ret.status = "OK" /\ call.ret.messages = <<>>
           ELSE /\ call.ret.status = "WARNING"
                /\ call.ret.messages =
                     <<"Has " \o ToString(n) \o " Reallocated Sectors.">>

\* C8 witness: a single sample with reallocated sectors, analysed
C8_Witness ==
    /\ TrendReturned
    /\ SampleCount(db, call.serial) = 1
    /\ LastRsc(db, call.serial) = 2

\* the table grew by exactly one row and kept every earlier row
OneRowAppended ==
    /\ Len(db') = Len(db) + 1
    /\ SubSeq(db', 1, Len(db)) = db

\* a step of a successful log_status (time passes during the call), and a
\* step in which one of the three readers returned
LogStatusStep == now' > now
ReaderStep ==
    /\ call' # call
    /\ call'.op \in {"get_latest_stats", "get_io_history", "analyze_trend"}

\* C9: the store is append-only. log_status adds exactly one sample and leaves
\* the earlier ones as they were; get_latest_stats, get_io_history and
\* analyze_trend leave the store unchanged; no step updates or deletes a
\* sample.
C9_AppendOnly ==
    [][/\ db' = db \/ OneRowAppended
       /\ LogStatusStep => OneRowAppended
       /\ ReaderStep => db' = db]_vars

\* C9 witness: a second sample of a serial was logged and then read
C9_Witness ==
    /\ call.op \in {"get_latest_stats", "get_io_history", "analyze_trend"}
    /\ SampleCount(db, call.serial) >= 2

IoReturned == call.op = "get_io_history"

\* the timestamp is the k-th smallest of the serial's samples
IsKthSmallest(table, serial, ts, k) ==
    /\ Cardinality({j \in RowIds(table, serial) : table[j].timestamp < ts}) <= k - 1
    /\ Cardinality({j \in RowIds(table, serial) : table[j].timestamp <= ts}) >= k

StatsTuple(r) ==
    <<r.reallocated_sectors, r.read_errors, r.power_on_hours, r.pending_sectors,
      r.timestamp>>

\* C11: round trip. The get_latest_stats(serial) that follows a successful
\* log_status(serial, rsc, readErr, hours, pending) returns the record of that
\* call (the row the call appended, with reallocated_sectors = rsc), and
\* get_latest_stats returns None for a serial without samples.
C11_RoundTrip ==
    [][(call'.op = "get_latest_stats" /\ call' # call) =>
          /\ (call.op = "log_status" /\ ~call.raised /\ call.serial = call'.serial)
                => /\ call'.ret = Some(StatsTuple(db[Len(db)]))
                   /\ call'.ret[1][1] = call.rsc
          /\ RowIds(db, call'.serial) = {} => call'.ret = None]_vars

\* C22: the analyze_trend that immediately follows a successful log_status
\* for the same serial takes the just-written sample as its current sample
\* (rows[0]): the values it compares are those passed to that log_status,
\* whatever samples the serial had before.
C22_AnalysisSeesWrittenSample ==
    [][(/\ call.op = "log_status" /\ ~call.raised
        /\ call' # call
        /\ call'.op = "analyze_trend"
        /\ call'.serial = call.serial)
       => /\ call'.rows # <<>>
          /\ call'.rows[1] = db[Len(db)]
          /\ call'.rows[1].reallocated_sectors = call.rsc]_vars

\* the order OK < WARNING < CRITICAL
Rank(status) ==
    CASE status = "OK" -> 0 [] status = "WARNING" -> 1 [] status = "CRITICAL" -> 2

\* the change of reallocated_sectors between the two rows analyze_trend
\* compares
RscDiff(rows) == rows[1].reallocated_sectors - rows[2].reallocated_sectors

\* C23: within one analyze_trend evaluation the status only moves upward in
\* OK < WARNING < CRITICAL from step to step (since-first-scan, immediate
\* change, absolute check), and the returned status is CRITICAL whenever the
\* immediate check found rsc_diff > 0.
C23_StatusOnlyRises ==
    (TrendReturned /\ call.rows # <<>>) =>
        LET r1 == SinceFirstScan(EmptyResult, call.rows[1], call.oldest)
            r2 == ImmediateChange(r1, call.rows)
            r3 == AbsoluteThreshold(r2, call.rows[1])
        IN  /\ Rank(r1.status) <= Rank(r2.status)
            /\ Rank(r2.status) <= Rank(r3.status)
            /\ Rank(r3.status) <= Rank(call.ret.status)
            /\ (Len(call.rows) > 1 /\ RscDiff(call.rows) > 0)
                  => call.ret.status = "CRITICAL"

\* C23 witness: an analysis in which the since-first-scan step set WARNING,
\* the immediate step CRITICAL, and the current sample has reallocated
\* sectors, so that the absolute step is reached with CRITICAL
C23_Witness ==
    /\ TrendReturned
    /\ Len(call.rows) = 2
    /\ SinceFirstScan(EmptyResult, call.rows[1], call.oldest).status = "WARNING"
    /\ RscDiff(call.rows) > 0
    /\ call.rows[1].reallocated_sectors > 0
    /\ call.ret.status = "CRITICAL"

\* the three kinds of reallocated-sectors message
IsSinceFirstMsg(m) == Contains(m, "Reallocated Sectors increased by ")
IsNewReallocMsg(m) == Contains(m, "New Reallocated Sectors detected!")
IsHasMsg(m) == SubSeq(m, 1, 4) = "Has "

\* the growth of reallocated_sectors from the oldest to the current sample of
\* an analysis
RscGrowth(c) == c.rows[1].reallocated_sectors - c.oldest[1].reallocated_sectors

\* C25: absolute-presence check. If the current sample has n > 0 reallocated
\* sectors and neither the since-first-scan step nor the immediate step
\* raised the status, the result is WARNING and holds "Has n Reallocated
\* Sectors."; no result holds a "Has n" message together with a
\* since-first-scan or new-reallocated message.
C25_AbsolutePresence ==
    (TrendReturned /\ call.rows # <<>>) =>
        LET n == call.rows[1].reallocated_sectors
            raised == \/ call.oldest # None /\ RscGrowth(call) > 0
                      \/ Len(call.rows) > 1 /\ RscDiff(call.rows) > 0
        IN  /\ (n > 0 /\ ~raised) =>
                  /\ call.ret.status = "WARNING"
                  /\ InSeq("Has " \o ToString(n) \o " Reallocated Sectors.",
                           call.ret.messages)
            /\ (\E k \in 1..Len(call.ret.messages) : IsHasMsg(call.ret.messages[k]))
                  => \A k \in 1..Len(call.ret.messages) :
                        /\ ~IsSinceFirstMsg(call.ret.messages[k])
                        /\ ~IsNewReallocMsg(call.ret.messages[k])

\* C25 witness: three samples with the same positive count: no growth, no
\* change, and the absolute check alone makes the result
C25_Witness ==
    /\ TrendReturned
    /\ SampleCount(db, call.serial) = 3
    /\ Len(call.rows) = 2
    /\ RscGrowth(call) = 0
    /\ RscDiff(call.rows) = 0
    /\ call.rows[1].reallocated_sectors = 1
    /\ call.ret.messages = <<"Has 1 Reallocated Sectors.">>

\* the row has the greatest (dir = 1) or the least (dir = -1) timestamp of
\* the serial's samples
IsExtreme(table, serial, row, dir) ==
    /\ \E k \in RowIds(table, serial) : table[k] = row
    /\ \A k \in RowIds(table, serial) :
          dir * table[k].timestamp <= dir * row.timestamp

\* C26: since-first-seen check. Whatever samples a serial has, with current
\* its most recent and oldest its earliest sample by timestamp, analyze_trend
\* returns rsc_trend = current - oldest reallocated_sectors when that growth
\* is > 0, with a status of at least WARNING and the message "Reallocated
\* Sectors increased by {growth} since first scan."; and rsc_trend = 0 and no
\* such message when the growth is <= 0.
C26_SinceFirstSeen ==
    TrendReturned =>
        IF call.rows = <<>>
        THEN RowIds(db, call.serial) = {} /\ call.ret.rsc_trend = 0
        ELSE /\ call.oldest # None
             /\ IsExtreme(db, call.serial, call.rows[1], 1)
             /\ IsExtreme(db, call.serial, call.oldest[1], -1)
             /\ IF RscGrowth(call) > 0
                THEN /\ call.ret.rsc_trend = RscGrowth(call)
                     /\ Rank(call.ret.status) >= Rank("WARNING")
                     /\ InSeq("Reallocated Sectors increased by "
                              \o ToString(RscGrowth(call)) \o " since first scan.",
                              call.ret.messages)
                ELSE /\ call.ret.rsc_trend = 0
                     /\ \A k \in 1..Len(call.ret.messages) :
                            ~IsSinceFirstMsg(call.ret.messages[k])

\* C26 witness: the current sample is above the oldest by 2 and not above the
\* previous one, so that the growth alone decides
C26_Witness ==
    /\ TrendReturned
    /\ Len(call.rows) = 2
    /\ call.oldest # None
    /\ RscGrowth(call) = 2
    /\ RscDiff(call.rows) = 0
    /\ call.ret.rsc_trend = 2
    /\ call.ret.status = "WARNING"

\* no two samples of the serial carry the same timestamp
TimestampsDistinct(table, serial) ==
    \A a, b \in RowIds(table, serial) :
        a # b => table[a].timestamp # table[b].timestamp

\* the reallocated_sectors logged for the serial never decreased
RscNeverDecreased(table, serial) ==
    \A a, b \in RowIds(table, serial) :
        a < b => table[a].reallocated_sectors <= table[b].reallocated_sectors

\* C27: no flapping back to OK. The result of analyze_trend is OK exactly
\* when there is no sample or the current sample's reallocated_sectors is 0;
\* and when the reallocated_sectors logged for a serial never decreased and
\* its samples carry distinct timestamps, an analysis returns non-OK if an
\* analysis made at any earlier point of the serial's history (the store
\* being append-only, on a prefix of the table) returned non-OK.
C27_NoFlapping ==
    TrendReturned =>
        /\ call.ret.status = "OK"
              <=> (call.rows = <<>> \/ call.rows[1].reallocated_sectors = 0)
        /\ (/\ RscNeverDecreased(db, call.serial)
            /\ TimestampsDistinct(db, call.serial))
              => \A k \in 1..Len(db) :
                    \A res \in TrendResults(SubSeq(db, 1, k), call.serial) :
                        res.status # "OK" => call.ret.status # "OK"

\* C27 witness: two polls of a serial with counts 1 and 2, the clock set back
\* between them to an instant no sample of the serial carries, analysed after
\* the second
C27_Witness ==
    /\ TrendReturned
    /\ SampleCount(db, call.serial) = 2
    /\ RscNeverDecreased(db, call.serial)
    /\ TimestampsDistinct(db, call.serial)
    /\ ~TimestampsIncreasing(db, call.serial)
    /\ FirstRsc(db, call.serial) = 1
    /\ LastRsc(db, call.serial) = 2
    /\ call.ret.status # "OK"

\* C30: every non-OK result carries a message that explains it: WARNING or
\* CRITICAL implies a reallocated-sectors message (since-first-scan,
\* new-reallocated or "Has n"), CRITICAL implies "New Reallocated Sectors
\* detected!".
C30_NonOkHasMessage ==
    TrendReturned =>
        /\ call.ret.status # "OK" =>
              \E k \in 1..Len(call.ret.messages) :
                 \/ IsSinceFirstMsg(call.ret.messages[k])
                 \/ IsNewReallocMsg(call.ret.messages[k])
                 \/ IsHasMsg(call.ret.messages[k])
        /\ call.ret.status = "CRITICAL" =>
              \E k \in 1..Len(call.ret.messages) :
                 IsNewReallocMsg(call.ret.messages[k])

\* C30 witness: a WARNING that only the absolute check explains, with samples
\* before it
C30_Witness ==
    /\ TrendReturned
    /\ Len(call.rows) = 2
    /\ call.ret.status = "WARNING"
    /\ Len(call.ret.messages) = 1
    /\ IsHasMsg(call.ret.messages[1])

\* everything the three readers may return for a serial on a table
ReadsOf(table, serial) ==
    LET desc == DescOrders(table, serial)
        asc == AscOrders(table, serial)
    IN  [latest |-> {get_latest_stats(table, o) : o \in desc},
         io |-> [limit \in Limits |->
                    {get_io_history(table, o, limit) : o \in asc}],
         trend |-> TrendResults(table, serial)]

\* C28: per-serial isolation. A log_status for one serial changes nothing of
\* what get_latest_stats, get_io_history and analyze_trend return for any
\* other serial.
C28_SerialIsolation ==
    [][LogStatusStep =>
          \A b \in Serials :
              b # db'[Len(db')].serial_number => ReadsOf(db', b) = ReadsOf(db, b)]_vars

\* C28 witness: a sample was logged for one serial while another serial,
\* with reallocated sectors of its own, had samples in the store
C28_Witness ==
    /\ call.op = "log_status"
    /\ ~call.raised
    /\ call.serial = "A"
    /\ call.rsc = 0
    /\ SampleCount(db, "A") = 1
    /\ SampleCount(db, "B") = 2
    /\ db[Len(db)].serial_number = "A"
    /\ LastRsc(db, "B") = 2

----------------------------------------------------------------------------
(* Properties of analyze_trend on samples with errors, under SpecTrend *)

\* the read and write error counts k samples may carry
ErrorProfiles(k) == [1..k -> [read_errors : ReadErrValues,
                              write_errors : WriteErrValues]]

\* the samples with their error counts replaced by those of a profile
WithErrors(rows, e) ==
    [k \in 1..Len(rows) |->
        [rows[k] EXCEPT !.read_errors = e[k].read_errors,
                        !.write_errors = e[k].write_errors]]

\* a nullable count, null read as 0
NullAsZero(x) == IF x = None THEN 0 ELSE x[1]

\* the samples with every null write_errors replaced by 0
NullsZeroed(rows) ==
    [k \in 1..Len(rows) |->
        [rows[k] EXCEPT !.write_errors = Some(NullAsZero(@))]]

ReadDiff(rows) == rows[1].read_errors - rows[2].read_errors

WriteDiff(rows) ==
    NullAsZero(rows[1].write_errors) - NullAsZero(rows[2].write_errors)

HasMessage(messages, m) == \E k \in 1..Len(messages) : messages[k] = m

IsReadErrMsg(m) == Contains(m, "New Read Errors detected!")
IsWriteErrMsg(m) == Contains(m, "New Write Errors detected!")

\* C24: the status analyze_trend returns depends only on the
\* reallocated_sectors of the oldest, previous and current samples: it is the
\* same whatever read and write error counts the two latest samples carry. An
\* increase d of read_errors or write_errors between them appends "New Read
\* Errors detected! (+d)" or "New Write Errors detected! (+d)" (and nothing of
\* the kind is appended without an increase), and a null write_errors gives
\* the result that 0 in its place gives.
C24_StatusFromRscOnly ==
    (TrendReturned /\ call.rows # <<>>) =>
        /\ \A e \in ErrorProfiles(Len(call.rows)) :
              analyze_trend(WithErrors(call.rows, e), call.oldest).status
                  = call.ret.status
        /\ analyze_trend(NullsZeroed(call.rows), call.oldest) = call.ret
        /\ Len(call.rows) = 2 =>
              /\ IF ReadDiff(call.rows) > 0
                 THEN HasMessage(call.ret.messages,
                         "New Read Errors detected! (+"
                         \o ToString(ReadDiff(call.rows)) \o ")")
                 ELSE \A k \in 1..Len(call.ret.messages) :
                         ~IsReadErrMsg(call.ret.messages[k])
              /\ IF WriteDiff(call.rows) > 0
                 THEN HasMessage(call.ret.messages,
                         "New Write Errors detected! (+"
                         \o ToString(WriteDiff(call.rows)) \o ")")
                 ELSE \A k \in 1..Len(call.ret.messages) :
                         ~IsWriteErrMsg(call.ret.messages[k])
        /\ Len(call.rows) < 2 =>
              \A k \in 1..Len(call.ret.messages) :
                  /\ ~IsReadErrMsg(call.ret.messages[k])
                  /\ ~IsWriteErrMsg(call.ret.messages[k])

\* C24 witness: read errors grew by 2 and write errors by 1 over a null
\* write_errors between the two latest of three samples without reallocated
\* sectors, and the analysis returned OK with the two messages
C24_Witness ==
    /\ TrendReturned
    /\ Len(db) = 3
    /\ Len(call.rows) = 2
    /\ call.rows[2].write_errors = None
    /\ call.rows[1].write_errors = Some(1)
    /\ ReadDiff(call.rows) = 2
    /\ call.ret.status = "OK"
    /\ call.ret.messages = <<"New Read Errors detected! (+2)",
                             "New Write Errors detected! (+1)">>

----------------------------------------------------------------------------
(* Properties of the schema setup, under SpecSchema *)

\* the step is a run of _init_db
InitDbStep == call'.runs = call.runs + 1

\* the columns of a store, as a set
ColumnsOf(s) == {s.columns[j] : j \in 1..Len(s.columns)}

\* C21: schema setup is idempotent. No run of _init_db raises; a run on a
\* store _init_db has run on before leaves the columns (none twice), the
\* indices and every stored sample as they were.
C21_InitDbIdempotent ==
    [][InitDbStep =>
          /\ ~call'.raised
          /\ Cardinality(ColumnsOf(call'.store)) = Len(call'.store.columns)
          /\ call.runs >= 1 =>
                /\ call'.store.columns = call.store.columns
                /\ call'.store.indices = call.store.indices
                /\ call'.store.rows = call.store.rows]_vars

\* C21 witness: _init_db has run twice on a store that an earlier version
\* left without the migrated columns and the index, a sample being logged
\* between the two runs
C21_Witness ==
    /\ call.op = "_init_db"
    /\ call.runs = 2
    /\ ~call.raised
    /\ ~call.logged
    /\ call.found.columns = BaseColumns
    /\ call.found.indices = {}
    /\ Len(call.found.rows) = 1
    /\ Len(call.store.rows) = 2
    /\ Len(call.store.columns) = 9
    /\ call.store.indices = {IndexName}
    /\ call.store.rows[1].io_load = None
    /\ call.store.rows[2].io_load = Some(0)

----------------------------------------------------------------------------
(* Properties of the polling loop, under Spec *)

Range(seq) == {seq[k] : k \in 1..Len(seq)}

\* the polling thread is past the for loop of its cycle
CycleOver == pc \in {"sleep", "while", "done"}

\* C4: if log_status fails for a device, the cycle continues: the device is
\* placed in the cycle's results with its health score, the remaining devices
\* are processed and the result map is swapped in.
C4_LogFailureContinues ==
    cycle.error = "log_status" =>
        /\ cycle.dev \in DOMAIN new_data
        /\ "health_score" \in DOMAIN new_data[cycle.dev]
        /\ CycleOver => DOMAIN new_data = Range(devices) /\ disks_data = new_data

\* C5: a cycle that fails (the scan failed, or a device raised) leaves
\* disks_data as it was before the cycle: no step of such a cycle changes it.
C5_FailedCycleKeepsData ==
    [][(cycle.scan_failed \/ cycle.error # NoError) => disks_data' = disks_data]_vars

\* C6: once the running flag is cleared while a cycle is in its for loop, the
\* loop starts no further device of the cycle and publishes no partial map.
C6_StopsBetweenDevices ==
    [][(~running /\ pc = "for") =>
          /\ idx' = idx
          /\ disks_data' # disks_data => DOMAIN disks_data' = Range(devices)]_vars

\* C7: the shared map changes only by the swap at the end of a cycle, to the
\* map holding every device of that cycle, and _refresh_dashboard's copy is
\* always the shared map of the moment: neither a published nor an observed
\* map holds only some of a cycle's devices.
C7_NoTornRead ==
    [][/\ disks_data' # disks_data =>
             /\ pc = "for" /\ idx = Len(devices)
             /\ disks_data' = new_data
             /\ DOMAIN new_data = Range(devices)
       /\ (current_data' # current_data /\ current_data' # None) =>
             current_data' = Some(disks_data)]_vars

\* C7 witness: the reader holds its copy of the shared map while the polling
\* thread has built one of two devices' entries
C7_Witness ==
    /\ current_data = Some(disks_data)
    /\ pc = "for"
    /\ Len(devices) = 2
    /\ idx = 1
    /\ DOMAIN new_data = {devices[1]}
    /\ disks_data # new_data

\* the snapshot reports a serial number
HasSerial(d) == "serial_number" \in DOMAIN d

\* the for loop body ran to its end for devices[idx + 1]
DeviceCompleted == pc = "for" /\ idx' = idx + 1

\* C12: when the for loop body completes a device whose snapshot was acquired
\* without serial number, no sample is written and the snapshot placed in the
\* results has no analysis and no stats but has its health_score; when it
\* completes a device with a serial number, exactly one sample, of that
\* serial and with the extracted counts, is appended and the snapshot carries
\* an analysis and the stats.
C12_UnknownSerialSkipsHistory ==
    [][DeviceCompleted =>
          LET d == new_data'[devices[idx + 1]]
          IN  /\ ~HasSerial(d) =>
                    /\ db' = db
                    /\ "analysis" \notin DOMAIN d
                    /\ "stats" \notin DOMAIN d
                    /\ d # EmptyDict => "health_score" \in DOMAIN d
              /\ HasSerial(d) =>
                    /\ OneRowAppended
                    /\ db'[Len(db')].serial_number = d.serial_number
                    /\ "analysis" \in DOMAIN d
                    /\ "stats" \in DOMAIN d
                    /\ db'[Len(db')].reallocated_sectors = d.stats.rsc]_vars

\* C12 witness: a cycle placed a device without serial number (scored, not
\* analysed) and a device with one (sample written, analysed) in its results
C12_Witness ==
    /\ pc = "for"
    /\ idx = 2
    /\ \E a, b \in DOMAIN new_data :
          /\ new_data[a] # EmptyDict
          /\ ~HasSerial(new_data[a])
          /\ "health_score" \in DOMAIN new_data[a]
          /\ "analysis" \notin DOMAIN new_data[a]
          /\ HasSerial(new_data[b])
          /\ "analysis" \in DOMAIN new_data[b]
          /\ \E k \in 1..Len(db) :
                 db[k].serial_number = new_data[b].serial_number

\* the snapshot is what a failed acquisition left: nothing, or the tool's
\* report of a non-zero exit
AcquisitionFailed(d) == d = EmptyDict \/ "exit_status" \in DOMAIN d

\* C20: when the acquisition of a device's snapshot fails (tool error,
\* non-zero exit, unparsable output) the device gets an empty snapshot, without
\* health score, history sample or trend analysis, and the cycle goes on with
\* the for loop.
C20_AcquisitionFailure ==
    [][(DeviceCompleted /\ AcquisitionFailed(new_data'[devices[idx + 1]])) =>
          /\ new_data'[devices[idx + 1]] = EmptyDict
          /\ db' = db
          /\ pc' = "for"]_vars

\* something failed in the polling cycle in progress
CycleFailed == cycle.scan_failed \/ cycle.error # NoError

\* C19: no failure ends the polling loop. After the scan fails, or a device's
\* acquisition, history write or trend analysis raises, the loop begins
\* another cycle unless the running flag is cleared.
C19_LoopSurvives ==
    CycleFailed ~> (pc = "scan" \/ ~running)

\* C19 witness: the loop has begun the cycle after one in which a device
\* raised, with the running flag still set
C19_Witness ==
    /\ pc = "scan"
    /\ running
    /\ cycle.after \in {"get_disk_health", "log_status", "analyze_trend"}

\* the severity a device of the cycle contributes to the tray icon: red for a
\* CRITICAL trend or a non-OK trend with SMART failed, yellow for any other
\* non-OK trend, green for an OK trend or a device that was not analysed
SeverityOf(data) ==
    IF "analysis" \notin DOMAIN data \/ data.analysis.status = "OK" THEN "green"
    ELSE IF data.analysis.status = "CRITICAL" \/ ~Get(data, "passed", TRUE)
         THEN "red"
    ELSE "yellow"

\* the worst severity over the devices the cycle has processed
WorstSeverity(processed) ==
    LET sev == {SeverityOf(processed[d]) : d \in DOMAIN processed}
    IN  IF "red" \in sev THEN "red"
        ELSE IF "yellow" \in sev THEN "yellow"
        ELSE "green"

\* C29: the overall status of a polling cycle is the worst severity over the
\* devices it has processed, whatever their order: red when any analysed
\* device had a CRITICAL trend (or a non-OK trend with SMART failed), yellow
\* when the worst is WARNING, green when every analysed device was OK; a later
\* device with a milder status never lowers it.
C29_WorstSeverity ==
    pc = "for" => overall_status = WorstSeverity(new_data)

=============================================================================
